---- MODULE Spec2Model ----
(***************************************************************************)
(* Model of the chunking, retry and merging layer of                      *)
(* src/src/text_extractor.py (class JapaneseTextExtractor).               *)
(*                                                                         *)
(* Texts are sequences of one-character strings.  The module is written   *)
(* in ASCII, so the Japanese characters of the source are represented by  *)
(* stand-ins:  "." is the ideographic full stop U+3002, "!" and "?" the   *)
(* full-width exclamation and question marks, "~" the ideographic space   *)
(* U+3000; " ", "\t" and "\n" are themselves.                             *)
(***************************************************************************)
EXTENDS Integers, Sequences, FiniteSets, TLC

VARIABLES
    c_text, c_max, c_out, c_pc,             \* one call of _chunk_text
    d_kind, d_in, d_prev, d_list, d_runs,   \* repeated calls of _deduplicate_*
    \* one call of extract_all(text, use_scaling = use_scaling)
    text, use_scaling,
    pc,             \* "idle", "start", "scaling", "chunked", "direct", "done", "raised"
    kind,           \* index in Kinds of the record kind being extracted
    chunks, ci,     \* the chunks of the chunked loop and the index i of the loop
    attempt,        \* 1: try block of the loop body, 2: retry after a rate limit
    stack,          \* the _safe_extract_* calls that are re-chunking (narrowing)
    chunk_results,  \* results of the kinds of the current chunk (or scaling pass)
    all_results,    \* all_characters, all_emotions, all_relationships
    results,        \* the batch returned
    cur,            \* history: the top-level _safe_extract_* call in progress
    calls,          \* history: the finished top-level client calls
    sleeps,         \* history: the calls of time.sleep, each with the number of
                    \* top-level client calls finished before it
    b_kind, b_extraction, b_rest, b_out, b_pc,  \* records built from the extractions of a call
    \* one run of quick_test.py
    argv,           \* sys.argv[1:]
    environ,        \* os.environ
    m_pc,           \* "idle", "main", "fetch", "construct", "extract", "display",
                    \* "save", "returned", "exit"
    work_name, model_id,    \* the locals of main passed to quick_analyze
    q_text,         \* the text quick_analyze works on
    credential,     \* the environment variable __init__ reads the key from
    api_key,        \* self.api_key
    success,        \* what quick_analyze returned
    exit_status,    \* <<the argument of sys.exit>>, <<>> while main has not exited
    events          \* history: what the run did, in order

chunkVars == <<c_text, c_max, c_out, c_pc>>
dedupVars == <<d_kind, d_in, d_prev, d_list, d_runs>>
orchVars == <<text, use_scaling, pc, kind, chunks, ci, attempt, stack, chunk_results,
              all_results, results, cur, calls, sleeps>>

buildVars == <<b_kind, b_extraction, b_rest, b_out, b_pc>>
cliVars == <<argv, environ, m_pc, work_name, model_id, q_text, credential, api_key,
             success, exit_status, events>>
auxVars == <<buildVars, cliVars>>
vars == <<chunkVars, dedupVars, orchVars, auxVars>>

-----------------------------------------------------------------------------
(* Bounds of the model *)

MaxTextLen == 5
MaxSize == 3
MaxListLen == 3

\* the longest argument list given to quick_test.py
MaxArgs == 3

\* the nesting of _safe_extract_* calls at which Python raises RecursionError
MaxDepth == 4

\* stand-ins, in characters, for the threshold of extract_all (max_chunk_size,
\* 3000 by default) and for the size below which a malformed response is not
\* narrowed further (1000)
max_chunk_size == 15
NarrowSize == 4

-----------------------------------------------------------------------------
(* Characters *)

KUTEN == "."

\* the character class of re.split(r'[.!?\n]') at _chunk_text
Terminators == {".", "!", "?", "\n"}

\* the characters str.strip() removes (Unicode whitespace)
Whitespace == {" ", "~", "\t", "\n"}

ChunkAlphabet == {"a", "b", ".", "\n", "~"}

RECURSIVE SeqsUpTo(_, _)
SeqsUpTo(S, n) ==
    IF n = 0 THEN {<<>>}
    ELSE LET shorter == SeqsUpTo(S, n - 1)
         IN  shorter \cup {Append(s, x) : s \in {t \in shorter : Len(t) = n - 1}, x \in S}

\* sequence helpers: "".join(ss), and s with the characters of a set deleted
RECURSIVE Concat(_)
Concat(ss) == IF ss = <<>> THEN <<>> ELSE Head(ss) \o Concat(Tail(ss))

Without(s, chars) == SelectSeq(s, LAMBDA ch : ch \notin chars)

-----------------------------------------------------------------------------
(* _chunk_text *)

\* re.split(r'[.!?\n]', txt): the pieces between terminators, empty ones kept
RECURSIVE SplitFrom(_, _, _, _)
SplitFrom(txt, i, piece, out) ==
    IF i > Len(txt) THEN Append(out, piece)
    ELSE IF txt[i] \in Terminators
         THEN SplitFrom(txt, i + 1, <<>>, Append(out, piece))
         ELSE SplitFrom(txt, i + 1, Append(piece, txt[i]), out)

\* mutant: the piece after the last terminator is forgotten
SplitSentences_DropsLast(txt) ==
    LET all == SplitFrom(txt, 1, <<>>, <<>>) IN SubSeq(all, 1, Len(all) - 1)

SplitSentences(txt) == SplitFrom(txt, 1, <<>>, <<>>)

RECURSIVE LStrip(_)
LStrip(s) == IF s # <<>> /\ Head(s) \in Whitespace THEN LStrip(Tail(s)) ELSE s

RECURSIVE RStrip(_)
RStrip(s) ==
    IF s # <<>> /\ s[Len(s)] \in Whitespace THEN RStrip(SubSeq(s, 1, Len(s) - 1)) ELSE s

\* str.strip()
Strip(s) == RStrip(LStrip(s))

\* the for loop of _chunk_text over sentences[i..], then the final flush
RECURSIVE ChunkLoop(_, _, _, _, _)
ChunkLoop(sentences, i, current_chunk, chks, max_size) ==
    IF i > Len(sentences)
    THEN IF current_chunk # <<>> THEN Append(chks, Strip(current_chunk)) ELSE chks
    ELSE LET sentence == sentences[i]
         IN  IF Len(current_chunk) + Len(sentence) <= max_size
             THEN ChunkLoop(sentences, i + 1, current_chunk \o sentence \o <<KUTEN>>,
                            chks, max_size)
             ELSE ChunkLoop(sentences, i + 1, sentence \o <<KUTEN>>,
                            IF current_chunk # <<>>
                            THEN Append(chks, Strip(current_chunk)) ELSE chks,
                            max_size)

_chunk_text(txt, max_size) == ChunkLoop(SplitSentences(txt), 1, <<>>, <<>>, max_size)

-----------------------------------------------------------------------------
(* _deduplicate_characters and _deduplicate_relationships *)

Lower(ch) ==
    IF ch = "A" THEN "a" ELSE IF ch = "B" THEN "b" ELSE IF ch = "G" THEN "g"
    ELSE IF ch = "P" THEN "p" ELSE IF ch = "T" THEN "t" ELSE ch

\* char.name.replace(" ", "").replace("~", "").lower()
NormalizedName(char) ==
    LET kept == Without(Without(char.name, {" "}), {"~"})
    IN  [i \in DOMAIN kept |-> Lower(kept[i])]

\* f"{rel.person1}_{rel.person2}_{rel.relation_type}"
RelKey(rel) == rel.person1 \o <<"_">> \o rel.person2 \o <<"_">> \o rel.relation_type

\* mutant: the records kept are the repeated ones, not the first of each name
DedupCharactersFrom_KeepsRepeats(characters, i, seen_names, unique_chars) ==
    LET RECURSIVE Loop(_, _, _)
        Loop(j, seen, uniq) ==
            IF j > Len(characters) THEN uniq
            ELSE LET normalized_name == NormalizedName(characters[j])
                 IN  IF normalized_name \in seen
                     THEN Loop(j + 1, seen, Append(uniq, characters[j]))
                     ELSE Loop(j + 1, seen \cup {normalized_name}, uniq)
    IN  Loop(i, seen_names, unique_chars)

\* mutant: a name already seen replaces the record kept for it (last one wins)
DedupCharactersFrom_LastWins(characters, i, seen_names, unique_chars) ==
    LET RECURSIVE Loop(_, _)
        Loop(j, uniq) ==
            IF j > Len(characters) THEN uniq
            ELSE LET normalized_name == NormalizedName(characters[j])
                 IN  IF \E k \in DOMAIN uniq : NormalizedName(uniq[k]) = normalized_name
                     THEN Loop(j + 1,
                               [k \in DOMAIN uniq |->
                                   IF NormalizedName(uniq[k]) = normalized_name
                                   THEN characters[j] ELSE uniq[k]])
                     ELSE Loop(j + 1, Append(uniq, characters[j]))
    IN  Loop(i, unique_chars)

\* the for loop of _deduplicate_characters over characters[i..]
RECURSIVE DedupCharactersFrom(_, _, _, _)
DedupCharactersFrom(characters, i, seen_names, unique_chars) ==
    IF i > Len(characters) THEN unique_chars
    ELSE LET normalized_name == NormalizedName(characters[i])
         IN  IF normalized_name \notin seen_names
             THEN DedupCharactersFrom(characters, i + 1, seen_names \cup {normalized_name},
                                      Append(unique_chars, characters[i]))
             ELSE DedupCharactersFrom(characters, i + 1, seen_names, unique_chars)

_deduplicate_characters(characters) == DedupCharactersFrom(characters, 1, {}, <<>>)

\* the for loop of _deduplicate_relationships over relationships[i..]
RECURSIVE DedupRelationshipsFrom(_, _, _, _)
DedupRelationshipsFrom(relationships, i, seen_rels, unique_rels) ==
    IF i > Len(relationships) THEN unique_rels
    ELSE LET rel_key == RelKey(relationships[i])
         IN  IF rel_key \notin seen_rels
             THEN DedupRelationshipsFrom(relationships, i + 1, seen_rels \cup {rel_key},
                                         Append(unique_rels, relationships[i]))
             ELSE DedupRelationshipsFrom(relationships, i + 1, seen_rels, unique_rels)

_deduplicate_relationships(relationships) == DedupRelationshipsFrom(relationships, 1, {}, <<>>)

-----------------------------------------------------------------------------
(* Records built from the answer of the extraction client *)

None == <<"None">>

\* the sentinels for "unknown", intensity "normal" and direction "one-way"
FUMEI == <<"unknown">>
FUTSUU == <<"normal">>
IPPOUKOU == <<"one-way">>

\* an extraction whose attributes are None
NoAttributes == [None |-> None]

\* attrs.get(key, default)
Get(attrs, key, default) == IF key \in DOMAIN attrs THEN attrs[key] ELSE default

\* a or b
PyOr(a, b) == IF a = None \/ a = <<>> THEN b ELSE a

Character(extraction) ==
    LET attrs == extraction.attributes
    IN  [name |-> PyOr(extraction.extraction_text, Get(attrs, "name", FUMEI)),
         gender |-> Get(attrs, "gender", FUMEI),
         age |-> Get(attrs, "age", None),
         occupation |-> Get(attrs, "occupation", None),
         appearance |-> Get(attrs, "appearance", None),
         personality |-> Get(attrs, "personality", None)]

Emotion(extraction) ==
    LET attrs == extraction.attributes
    IN  [emotion_type |-> Get(attrs, "emotion_type", FUMEI),
         subject |-> Get(attrs, "subject", FUMEI),
         target |-> Get(attrs, "target", None),
         intensity |-> Get(attrs, "intensity", FUTSUU),
         quote |-> PyOr(extraction.extraction_text, Get(attrs, "quote", <<>>))]

Relationship(extraction) ==
    LET attrs == extraction.attributes
    IN  [person1 |-> Get(attrs, "person1", FUMEI),
         person2 |-> Get(attrs, "person2", FUMEI),
         relation_type |-> Get(attrs, "relation_type", FUMEI),
         direction |-> Get(attrs, "direction", IPPOUKOU),
         evidence |-> PyOr(extraction.extraction_text, Get(attrs, "evidence", <<>>))]

\* the loop over result.extractions; attrs.get raises AttributeError when the
\* attributes of an extraction are None
BuildRecords(k, extractions) ==
    IF \E i \in DOMAIN extractions : extractions[i].attributes = NoAttributes
    THEN [raised |-> TRUE, records |-> <<>>]
    ELSE [raised |-> FALSE,
          records |-> [i \in DOMAIN extractions |->
                          IF k = "character" THEN Character(extractions[i])
                          ELSE IF k = "emotion" THEN Emotion(extractions[i])
                          ELSE Relationship(extractions[i])]]

-----------------------------------------------------------------------------
(* Idle values of the variables a specification does not use *)

IdleChunk == c_text = <<>> /\ c_max = 1 /\ c_out = <<>> /\ c_pc = "idle"

IdleDedup == d_kind = "none" /\ d_in = <<>> /\ d_prev = <<>> /\ d_list = <<>> /\ d_runs = 0

IdleOrch ==
    /\ text = <<>> /\ use_scaling = TRUE /\ pc = "idle" /\ kind = 1
    /\ chunks = <<>> /\ ci = 0 /\ attempt = 1 /\ stack = <<>>
    /\ chunk_results = <<>> /\ all_results = <<>> /\ results = <<>>
    /\ cur = <<>> /\ calls = <<>> /\ sleeps = <<>>

IdleBuild ==
    b_kind = "none" /\ b_extraction = <<>> /\ b_rest = <<>> /\ b_out = <<>> /\ b_pc = "idle"

IdleCli ==
    /\ argv = <<>> /\ environ = <<>> /\ m_pc = "idle" /\ work_name = <<>> /\ model_id = <<>>
    /\ q_text = <<>> /\ credential = <<>> /\ api_key = <<>> /\ success = FALSE
    /\ exit_status = <<>> /\ events = <<>>

IdleAux == IdleBuild /\ IdleCli

-----------------------------------------------------------------------------
(* Specification of the chunker alone: any text, any size bound *)

InitChunk ==
    /\ IdleDedup
    /\ IdleOrch
    /\ IdleAux
    /\ c_text \in SeqsUpTo(ChunkAlphabet, MaxTextLen)
    /\ c_max \in 1..MaxSize
    /\ c_out = <<>>
    /\ c_pc = "ready"

DoChunk ==
    /\ c_pc = "ready"
    /\ c_out' = _chunk_text(c_text, c_max)
    /\ c_pc' = "chunked"
    /\ UNCHANGED <<c_text, c_max, dedupVars, orchVars, auxVars>>

NextChunk == DoChunk

SpecChunk == InitChunk /\ [][NextChunk]_vars

-----------------------------------------------------------------------------
(* Specification of the deduplicators alone: any list of records, deduplicated
   once and then once more *)

CharPool ==
    { Character([extraction_text |-> c[1], attributes |-> [gender |-> c[2]]]) :
        c \in { << <<"a">>, <<"male">> >>,
                << <<"a">>, <<"female">> >>,
                << <<"A">>, <<"male">> >>,
                << <<"a", " ">>, <<"male">> >>,
                << <<"~", "a">>, <<"male">> >>,
                << <<"a", "\t">>, <<"male">> >>,
                << <<"b">>, <<"female">> >> } }

RelPool ==
    { Relationship([extraction_text |-> r[4],
                    attributes |-> [person1 |-> r[1], person2 |-> r[2],
                                    relation_type |-> r[3]]]) :
        r \in { << <<"a">>, <<"b">>, <<"f">>, <<"x">> >>,
                << <<"a">>, <<"b">>, <<"f">>, <<"y">> >>,
                << <<"b">>, <<"a">>, <<"f">>, <<"x">> >>,
                << <<"a">>, <<"b">>, <<"g">>, <<"x">> >>,
                << <<"a", "_", "b">>, <<"c">>, <<"f">>, <<"x">> >>,
                << <<"a">>, <<"b", "_", "c">>, <<"f">>, <<"x">> >>,
                << <<"A">>, <<"b">>, <<"f">>, <<"x">> >> } }

InitDedup ==
    /\ IdleChunk
    /\ IdleOrch
    /\ IdleAux
    /\ \/ d_kind = "character" /\ d_in \in SeqsUpTo(CharPool, MaxListLen)
       \/ d_kind = "relationship" /\ d_in \in SeqsUpTo(RelPool, MaxListLen)
    /\ d_prev = <<>>
    /\ d_list = d_in
    /\ d_runs = 0

DeduplicateCharacters ==
    /\ d_kind = "character"
    /\ d_runs < 2
    /\ d_prev' = d_list
    /\ d_list' = _deduplicate_characters(d_list)
    /\ d_runs' = d_runs + 1
    /\ UNCHANGED <<d_kind, d_in, chunkVars, orchVars, auxVars>>

DeduplicateRelationships ==
    /\ d_kind = "relationship"
    /\ d_runs < 2
    /\ d_prev' = d_list
    /\ d_list' = _deduplicate_relationships(d_list)
    /\ d_runs' = d_runs + 1
    /\ UNCHANGED <<d_kind, d_in, chunkVars, orchVars, auxVars>>

NextDedup == DeduplicateCharacters \/ DeduplicateRelationships

SpecDedup == InitDedup /\ [][NextDedup]_vars

-----------------------------------------------------------------------------
(* Specification of the record builders alone: the extractions of one client
   answer, the first of any kind with any attribute map, are turned into
   records *)

\* the attributes the builders read for a record kind
AttributeKeys(k) ==
    IF k = "character" THEN {"name", "gender", "age"}
    ELSE IF k = "emotion" THEN {"emotion_type", "subject", "target", "intensity", "quote"}
    ELSE {"person1", "person2", "relation_type", "direction", "evidence"}

\* the values of an attribute or of extraction_text: null, "" or a string
AttributeValues == {None, <<>>, <<"v">>}

\* the attribute maps over some of the keys, and attributes = None
AttributeMaps(k) ==
    UNION {[keys -> AttributeValues] : keys \in SUBSET AttributeKeys(k)} \cup {NoAttributes}

\* an extraction with a text and every attribute the builders read
CompleteExtraction(k) ==
    [extraction_text |-> <<"w">>, attributes |-> [key \in AttributeKeys(k) |-> <<"v">>]]

\* result.extractions
Extractions == <<b_extraction>> \o b_rest

InitBuild ==
    /\ IdleChunk
    /\ IdleDedup
    /\ IdleOrch
    /\ IdleCli
    /\ b_kind \in {"character", "emotion", "relationship"}
    /\ \E extraction_text \in AttributeValues, attributes \in AttributeMaps(b_kind) :
           b_extraction = [extraction_text |-> extraction_text, attributes |-> attributes]
    /\ b_rest \in {<<>>, <<CompleteExtraction(b_kind)>>}
    /\ b_out = <<>>
    /\ b_pc = "ready"

\* the loop `for extraction in result.extractions` inside the try of
\* _safe_extract_*: an exception leaves the call with no record
BuildRecord ==
    /\ b_pc = "ready"
    /\ b_out' = BuildRecords(b_kind, Extractions)
    /\ b_pc' = "built"
    /\ UNCHANGED <<b_kind, b_extraction, b_rest, chunkVars, dedupVars, orchVars, cliVars>>

NextBuild == BuildRecord

SpecBuild == InitBuild /\ [][NextBuild]_vars

-----------------------------------------------------------------------------
(* quick_test.py: main, quick_analyze, and the constructor of
   JapaneseTextExtractor.  Strings are sequences of characters; the titles,
   options and model names are shortened. *)

\* "--model", and some other option
MODEL_OPTION == <<"-", "-", "m">>
OTHER_OPTION == <<"-", "-", "x">>

\* the list works of main, which holds the keys of AozoraFetcher.SAMPLE_WORKS
works == << <<"r", "a">>, <<"b", "o">>, <<"m", "e">>, <<"g", "i">> >>

WorkSet == {works[i] : i \in DOMAIN works}

\* the default model "gemini-2.0-flash-exp", and the substring "gpt"
DefaultModel == <<"g", "e", "m">>
GPT == <<"g", "p", "t">>

\* s.startswith(prefix), sub in s, s.lower()
StartsWith(s, prefix) == Len(s) >= Len(prefix) /\ SubSeq(s, 1, Len(prefix)) = prefix

Contains(sub, s) ==
    \E i \in 1..(Len(s) - Len(sub) + 1) : SubSeq(s, i, i + Len(sub) - 1) = sub

LowerStr(s) == [i \in DOMAIN s |-> Lower(s[i])]

\* the arguments tried: the options, two titles of the list, a title that is
\* not in the list, and model names with "gpt" in lower and in upper case
Arguments ==
    {MODEL_OPTION, OTHER_OPTION, works[1], works[2], <<"z", "z">>, GPT, <<"G", "P", "T">>}

\* the values of an environment variable: unset, empty, set
EnvValues(set) == {None, <<>>, set}

\* the handling of --model by main
ParseModel(args) ==
    IF \E i \in DOMAIN args : args[i] = MODEL_OPTION
    THEN LET model_index == CHOOSE i \in DOMAIN args :
                                /\ args[i] = MODEL_OPTION
                                /\ \A j \in 1..(i - 1) : args[j] # MODEL_OPTION
         IN  IF model_index + 1 <= Len(args)
             THEN [exit |-> FALSE, model_id |-> args[model_index + 1]]
             ELSE [exit |-> TRUE, model_id |-> None]
    ELSE [exit |-> FALSE, model_id |-> None]

\* the loop `for arg in sys.argv[1:]` of main, from argument i on
RECURSIVE ParseWork(_, _, _)
ParseWork(args, i, mid) ==
    IF i > Len(args) THEN [exit |-> FALSE, work_name |-> works[1]]
    ELSE LET arg == args[i]
         IN  IF ~StartsWith(arg, <<"-", "-">>) /\ arg # mid
             THEN IF arg \in WorkSet
                  THEN [exit |-> FALSE, work_name |-> arg]
                  ELSE [exit |-> TRUE, work_name |-> works[1]]
             ELSE ParseWork(args, i + 1, mid)

\* the model the constructor uses: argument, else environment, else default
EffectiveModel(mid, env) ==
    IF mid = None
    THEN IF env.LANGEXTRACT_MODEL # None THEN env.LANGEXTRACT_MODEL ELSE DefaultModel
    ELSE mid

\* the environment variable the API key is read from
SelectedCredential(mid) ==
    IF Contains(GPT, LowerStr(mid)) THEN "OPENAI_API_KEY" ELSE "GOOGLE_API_KEY"

\* mutant: only an unset variable counts as a missing key
CredentialMissing_OnlyUnset(key) == key = None

\* not self.api_key
CredentialMissing(key) == key = None \/ key = <<>>

InitCli ==
    /\ IdleChunk
    /\ IdleDedup
    /\ IdleOrch
    /\ IdleBuild
    /\ argv \in SeqsUpTo(Arguments, MaxArgs)
    /\ environ \in [OPENAI_API_KEY : EnvValues(<<"k">>),
                    GOOGLE_API_KEY : EnvValues(<<"k">>),
                    LANGEXTRACT_MODEL : {None, GPT}]
    /\ m_pc = "main"
    /\ work_name = works[1]
    /\ model_id = None
    /\ q_text = <<>>
    /\ credential = None
    /\ api_key = None
    /\ success = FALSE
    /\ exit_status = <<>>
    /\ events = <<>>

\* main, up to the call of quick_analyze or to sys.exit(1)
Main ==
    /\ m_pc = "main"
    /\ LET pm == ParseModel(argv)
           pw == ParseWork(argv, 1, pm.model_id)
       IN  IF pm.exit
           THEN /\ events' = Append(events, "model_name_required")
                /\ exit_status' = <<1>>
                /\ m_pc' = "exit"
                /\ UNCHANGED <<work_name, model_id>>
           ELSE IF pw.exit
           THEN /\ events' = Append(events, "valid_list")
                /\ exit_status' = <<1>>
                /\ m_pc' = "exit"
                /\ model_id' = pm.model_id
                /\ UNCHANGED work_name
           ELSE /\ events' = Append(events, "quick_analyze")
                /\ work_name' = pw.work_name
                /\ model_id' = pm.model_id
                /\ m_pc' = "fetch"
                /\ UNCHANGED exit_status
    /\ UNCHANGED <<argv, environ, q_text, credential, api_key, success,
                   chunkVars, dedupVars, orchVars, buildVars>>

\* fetcher.fetch_sample(work_name): requests.get answers or raises; the text
\* fetched is normalised
FetchSample ==
    /\ m_pc = "fetch"
    /\ IF work_name \notin WorkSet
       THEN /\ events' = Append(events, "error_reported")
            /\ m_pc' = "returned"
            /\ UNCHANGED q_text
       ELSE \E net \in {"ok", "network_error"} :
                /\ m_pc' = "construct"
                /\ IF net = "ok"
                   THEN events' = Append(events, "fetched") /\ q_text' = <<"a", KUTEN>>
                   ELSE events' = Append(events, "fetch_error_reported") /\ q_text' = <<>>
    /\ UNCHANGED <<argv, environ, work_name, model_id, credential, api_key, success,
                   exit_status, chunkVars, dedupVars, orchVars, buildVars>>

\* JapaneseTextExtractor(model_id = model_id); a ValueError is caught by
\* quick_analyze, which reports it and returns False
Construct ==
    /\ m_pc = "construct"
    /\ LET mid == EffectiveModel(model_id, environ)
           key == environ[SelectedCredential(mid)]
       IN  /\ model_id' = mid
           /\ credential' = SelectedCredential(mid)
           /\ api_key' = key
           /\ IF CredentialMissing(key)
              THEN /\ events' = events \o <<"config_error", "error_reported">>
                   /\ m_pc' = "returned"
              ELSE /\ events' = Append(events, "constructed")
                   /\ m_pc' = "extract"
    /\ UNCHANGED <<argv, environ, work_name, q_text, success, exit_status,
                   chunkVars, dedupVars, orchVars, buildVars>>

\* extractor.extract_all(text)
ExtractAll ==
    /\ m_pc = "extract"
    /\ events' = Append(events, "extract_all")
    /\ m_pc' = "display"
    /\ UNCHANGED <<argv, environ, work_name, model_id, q_text, credential, api_key,
                   success, exit_status, chunkVars, dedupVars, orchVars, buildVars>>

\* visualizer.display_results_cli()
Display ==
    /\ m_pc = "display"
    /\ events' = Append(events, "display")
    /\ m_pc' = "save"
    /\ UNCHANGED <<argv, environ, work_name, model_id, q_text, credential, api_key,
                   success, exit_status, chunkVars, dedupVars, orchVars, buildVars>>

\* analyzer.save_results and visualizer.generate_html_report, and return True
Save ==
    /\ m_pc = "save"
    /\ events' = Append(events, "save_results")
    /\ success' = TRUE
    /\ m_pc' = "returned"
    /\ UNCHANGED <<argv, environ, work_name, model_id, q_text, credential, api_key,
                   exit_status, chunkVars, dedupVars, orchVars, buildVars>>

NextCli == Main \/ FetchSample \/ Construct \/ ExtractAll \/ Display \/ Save

SpecCli == InitCli /\ [][NextCli]_vars

-----------------------------------------------------------------------------
(* extract_all *)

Kinds == <<"character", "emotion", "relationship">>

EmptyBatch == [character |-> <<>>, emotion |-> <<>>, relationship |-> <<>>]

\* what a call of lx.extract does: it returns, or it raises json.JSONDecodeError,
\* an error whose message carries "429" or "RESOURCE_EXHAUSTED", or another one
Outcomes == {"ok", "json", "rate", "other"}

\* "429" in str(e) or "RESOURCE_EXHAUSTED" in str(e)
IsRateLimit(out) == out = "rate"

\* result.extractions of a call that returns: one extraction, whose text is
\* the start of the text passed (a longer span in scaling mode)
ClientExtractions(k, txt, scaling) ==
    LET span == SubSeq(txt, 1, IF scaling THEN 2 ELSE 1)
    IN  IF k = "character"
        THEN << [extraction_text |-> span, attributes |-> [gender |-> <<"male">>]] >>
        ELSE IF k = "emotion"
        THEN << [extraction_text |-> span,
                 attributes |-> [emotion_type |-> <<"joy">>, subject |-> span]] >>
        ELSE << [extraction_text |-> span,
                 attributes |-> [person1 |-> span, person2 |-> <<"x">>,
                                 relation_type |-> <<"f">>]] >>

\* smaller_chunks[:3]
MaxSubChunks == 3

FirstN(s, n) == SubSeq(s, 1, IF Len(s) < n THEN Len(s) ELSE n)

\* mutant: the exception is reported and raised again
SwallowsException_Reraises(out) == FALSE

\* the clause `except Exception as e: ... return []` of _safe_extract_*
SwallowsException(out) == TRUE

\* a value returned by a _safe_extract_* call: it is added to the all_chars of
\* the call that is iterating over sub-chunks, which goes on with its next
\* sub-chunk or, after the last one, returns in turn
RECURSIVE Unwind(_, _)
Unwind(stk, value) ==
    IF stk = <<>> THEN [stack |-> <<>>, state |-> "returned", value |-> value]
    ELSE LET top == stk[Len(stk)]
             acc == top.acc \o value
             rest == Tail(top.subs)
             below == SubSeq(stk, 1, Len(stk) - 1)
         IN  IF rest = <<>> THEN Unwind(below, acc)
             ELSE [stack |-> Append(below, [subs |-> rest, acc |-> acc]),
                   state |-> "narrowing", value |-> <<>>]

\* mutant: a malformed response is narrowed whatever the length of the text
IsNarrowable_Always(txt) == TRUE

\* if len(text) > 1000
IsNarrowable(txt) == Len(txt) > NarrowSize

\* one call of lx.extract made by _safe_extract_<k>(txt), with its outcome, and
\* what follows it up to the next call of lx.extract
SafeExtractStep(k, txt, out, stk) ==
    LET built == BuildRecords(k, ClientExtractions(k, txt, FALSE))
        effective == IF out = "ok" /\ built.raised THEN "other" ELSE out
    IN  IF effective = "ok" THEN Unwind(stk, built.records)
        ELSE IF effective = "json"
        THEN IF IsNarrowable(txt)
             THEN LET smaller_chunks == _chunk_text(txt, NarrowSize)
                      subs == FirstN(smaller_chunks, MaxSubChunks)
                  IN  IF subs = <<>> THEN Unwind(stk, <<>>)
                      ELSE [stack |-> Append(stk, [subs |-> subs, acc |-> <<>>]),
                            state |-> "narrowing", value |-> <<>>]
             ELSE Unwind(stk, <<>>)
        \* any other exception, RecursionError included; one that leaves a
        \* nested call is caught by `except: continue` of the caller
        ELSE IF SwallowsException(effective) \/ stk # <<>> THEN Unwind(stk, <<>>)
        ELSE [stack |-> <<>>, state |-> "raised", value |-> <<>>]

\* a client that answers every text longer than NarrowSize with a malformed
\* response and every other text normally
SizeClient(txt) == IF Len(txt) > NarrowSize THEN "json" ELSE "ok"

NoCall == [out |-> "none", n |-> 0, sized |-> TRUE]

TopText == IF pc = "direct" THEN text ELSE chunks[ci]

CallText == IF stack = <<>> THEN TopText ELSE Head(stack[Len(stack)].subs)

\* mutant: a text of exactly max_chunk_size characters counts as long
IsLong_AtThreshold == Len(text) >= max_chunk_size

\* len(text) > max_chunk_size
IsLong == Len(text) > max_chunk_size

\* mutant: the scaling mode is not tried
UsesScaling_Never == FALSE

\* use_scaling and len(text) > max_chunk_size
UsesScaling == use_scaling /\ IsLong

\* mutant: the emotions of a chunk are not added to all_emotions
Extended_WithoutEmotions(all, cr) ==
    [k \in DOMAIN all |-> IF k = "emotion" THEN all[k] ELSE all[k] \o cr[k]]

\* all_characters.extend(...), all_emotions.extend(...), all_relationships.extend(...)
Extended(all, cr) == [k \in DOMAIN all |-> all[k] \o cr[k]]

\* the batch built after the chunk loop
MergedBatch(all) ==
    [character |-> _deduplicate_characters(all.character),
     emotion |-> all.emotion,
     relationship |-> _deduplicate_relationships(all.relationship)]

\* the deduplication after the chunk loop, and the return
FinishChunked(all) ==
    /\ results' = MergedBatch(all)
    /\ pc' = "done"

\* the end of one iteration of the chunk loop
AdvanceChunk(all, slept) ==
    /\ all_results' = all
    /\ sleeps' = slept
    /\ chunk_results' = EmptyBatch
    /\ kind' = 1
    /\ attempt' = 1
    /\ IF ci < Len(chunks)
       THEN ci' = ci + 1 /\ UNCHANGED <<pc, results>>
       ELSE ci' = ci /\ FinishChunked(all)

\* mutant: the lists start with what the scaling calls that succeeded returned
InitialLists_KeepScaled(scaled) == scaled

\* all_characters = [], all_emotions = [], all_relationships = []: nothing of
\* the scaling calls that succeeded (scaled) is kept
InitialLists(scaled) == EmptyBatch

\* the branch taken when the text is not handled by the scaling mode
EnterUnscaled ==
    IF IsLong
    THEN LET all == InitialLists(chunk_results)
         IN  /\ chunks' = _chunk_text(text, max_chunk_size)
             /\ all_results' = all
             /\ IF chunks' = <<>>
                THEN ci' = 0 /\ FinishChunked(all)
                ELSE ci' = 1 /\ pc' = "chunked" /\ UNCHANGED results
    ELSE pc' = "direct" /\ UNCHANGED <<chunks, ci, results, all_results>>

\* mutant: the delay is also taken after the last chunk
NeedsDelay_Always(i) == TRUE

\* if i < len(chunks), before time.sleep(2)
NeedsDelay(i) == i < Len(chunks)

\* a _safe_extract_* call of extract_all has returned value
TopReturned(value) ==
    LET cr == [chunk_results EXCEPT ![Kinds[kind]] = value]
    IN  IF kind < Len(Kinds)
        THEN /\ chunk_results' = cr
             /\ kind' = kind + 1
             /\ UNCHANGED <<pc, ci, attempt, all_results, results, sleeps>>
        ELSE IF pc = "direct"
        THEN /\ results' = cr
             /\ pc' = "done"
             /\ UNCHANGED <<chunk_results, kind, ci, attempt, all_results, sleeps>>
        ELSE LET all == Extended(all_results, cr)
                 slept == IF attempt = 1 /\ NeedsDelay(ci)
                          THEN Append(sleeps, [secs |-> 2, chunk |-> ci,
                                               at |-> Len(calls) + 1])
                          ELSE sleeps
             IN  AdvanceChunk(all, slept)

\* a _safe_extract_* call of extract_all has raised
TopRaised(out) ==
    IF pc = "direct"
    THEN /\ pc' = "raised"
         /\ UNCHANGED <<chunk_results, kind, ci, attempt, all_results, results, sleeps>>
    ELSE IF attempt = 1 /\ IsRateLimit(out)
    THEN /\ sleeps' = Append(sleeps, [secs |-> 60, chunk |-> ci, at |-> Len(calls) + 1])
         /\ attempt' = 2
         /\ kind' = 1
         /\ chunk_results' = EmptyBatch
         /\ UNCHANGED <<pc, ci, all_results, results>>
    ELSE AdvanceChunk(all_results, sleeps)

\* one call of lx.extract by a _safe_extract_* call, nested or not
ClientCall(out) ==
    LET k == Kinds[kind]
        txt == CallText
        r == SafeExtractStep(k, txt, out, stack)
        invoked == out # "recursion"
        c == [out |-> IF stack = <<>> THEN out ELSE cur.out,
              n |-> cur.n + (IF invoked THEN 1 ELSE 0),
              sized |-> cur.sized /\ (invoked => out = SizeClient(txt))]
    IN  /\ stack' = r.stack
        /\ IF r.state = "narrowing"
           THEN /\ cur' = c
                /\ UNCHANGED <<calls, pc, kind, ci, attempt, chunk_results, all_results,
                               results, sleeps>>
           ELSE /\ cur' = NoCall
                /\ calls' = Append(calls, [mode |-> pc, kind |-> k, chunk |-> ci,
                                           attempt |-> attempt, txt |-> TopText,
                                           out |-> c.out, ret |-> r.value, n |-> c.n,
                                           sized |-> c.sized])
                /\ IF r.state = "returned" THEN TopReturned(r.value) ELSE TopRaised(c.out)
        /\ UNCHANGED <<text, use_scaling, chunks, chunkVars, dedupVars, auxVars>>

\* s repeated n times
RECURSIVE Rep(_, _)
Rep(s, n) == IF n = 0 THEN <<>> ELSE s \o Rep(s, n - 1)

\* a sentence of NarrowSize - 2 characters x with its terminator: two of them
\* do not fit into one sub-chunk
Sent(x) == Rep(<<x>>, NarrowSize - 2) \o <<KUTEN>>

FourSentences == Sent("a") \o Sent("b") \o Sent("c") \o Sent("d")

\* a text of exactly max_chunk_size characters, of more than MaxSubChunks
\* sentences
ThresholdText == FourSentences \o Rep(<<"e">>, max_chunk_size - Len(FourSentences))

\* a text longer than max_chunk_size, cut into a chunk that fills
\* max_chunk_size and the short chunk "a."
LongText ==
    IF Len(ThresholdText) > Len(FourSentences)
    THEN ThresholdText \o <<KUTEN, "a">>
    ELSE ThresholdText \o <<"a">>

\* the texts extract_all is called with:
\*   a text short enough never to be narrowed; texts handled directly whose
\*   narrowing gives MaxSubChunks sub-chunks, more than MaxSubChunks, and one
\*   single over-long sentence (the 2500 characters without a terminator,
\*   where NarrowSize stands for 1000); and a text longer than max_chunk_size
InputTexts ==
    { <<"a", KUTEN>>,
      Sent("a") \o Sent("b") \o Rep(<<"c">>, NarrowSize - 2),
      ThresholdText,
      Rep(<<"a">>, 2 * NarrowSize + 2),
      LongText }

Init ==
    /\ IdleChunk
    /\ IdleDedup
    /\ IdleAux
    /\ text \in InputTexts
    /\ use_scaling \in BOOLEAN
    /\ pc = "start"
    /\ kind = 1
    /\ chunks = <<>>
    /\ ci = 0
    /\ attempt = 1
    /\ stack = <<>>
    /\ chunk_results = EmptyBatch
    /\ all_results = EmptyBatch
    /\ results = EmptyBatch
    /\ cur = NoCall
    /\ calls = <<>>
    /\ sleeps = <<>>

\* extract_all is entered and chooses its mode
Begin ==
    /\ pc = "start"
    /\ IF UsesScaling
       THEN pc' = "scaling" /\ UNCHANGED <<chunks, ci, results, all_results>>
       ELSE EnterUnscaled
    /\ UNCHANGED <<text, use_scaling, kind, attempt, stack, chunk_results,
                   cur, calls, sleeps, chunkVars, dedupVars, auxVars>>

\* _extract_with_scaling for the next record kind
ScalingCall ==
    /\ pc = "scaling"
    /\ \E out \in Outcomes :
        LET k == Kinds[kind]
            built == BuildRecords(k, ClientExtractions(k, text, TRUE))
            ok == out = "ok" /\ ~built.raised
        IN  /\ calls' = Append(calls, [mode |-> "scaling", kind |-> k, chunk |-> 0,
                                       attempt |-> 1, txt |-> text,
                                       out |-> IF ok THEN "ok" ELSE "error",
                                       ret |-> IF ok THEN built.records ELSE <<>>,
                                       n |-> 1, sized |-> FALSE])
            /\ IF ok
               THEN LET cr == [chunk_results EXCEPT ![k] = built.records]
                    IN  IF kind < Len(Kinds)
                        THEN /\ chunk_results' = cr
                             /\ kind' = kind + 1
                             /\ UNCHANGED <<pc, chunks, ci, results, all_results>>
                        ELSE /\ results' = cr
                             /\ pc' = "done"
                             /\ UNCHANGED <<chunk_results, kind, chunks, ci, all_results>>
               \* raise e, caught by extract_all, which falls back to chunks
               ELSE /\ chunk_results' = EmptyBatch
                    /\ kind' = 1
                    /\ EnterUnscaled
    /\ UNCHANGED <<text, use_scaling, attempt, stack, cur, sleeps,
                   chunkVars, dedupVars, auxVars>>

\* a _safe_extract_* call on the whole text
DirectCall ==
    /\ pc = "direct"
    /\ stack = <<>>
    /\ \E out \in Outcomes : ClientCall(out)

\* a _safe_extract_* call on the current chunk of the chunk loop
ChunkCall ==
    /\ pc = "chunked"
    /\ stack = <<>>
    /\ \E out \in Outcomes : ClientCall(out)

\* a nested _safe_extract_* call on a sub-chunk; beyond MaxDepth nested calls
\* Python raises RecursionError before the client is reached
NarrowCall ==
    /\ pc \in {"direct", "chunked"}
    /\ stack # <<>>
    /\ \E out \in (IF Len(stack) >= MaxDepth THEN {"recursion"} ELSE Outcomes) :
        ClientCall(out)

Next == Begin \/ ScalingCall \/ DirectCall \/ ChunkCall \/ NarrowCall

Spec == Init /\ [][Next]_vars

-----------------------------------------------------------------------------
(* Properties of the chunker *)

\* the source txt with its sentence terminators removed
SentenceContent(txt) == Without(txt, Terminators)

\* the chks joined in order, with the terminator _chunk_text inserts removed
ChunkContent(chks) == Without(Concat(chks), {KUTEN})

RECURSIVE IsSubsequence(_, _)
IsSubsequence(s, t) ==
    IF s = <<>> THEN TRUE
    ELSE IF t = <<>> THEN FALSE
    ELSE IF Head(s) = Head(t) THEN IsSubsequence(Tail(s), Tail(t))
    ELSE IsSubsequence(s, Tail(t))

\* the chunk is one single sentence (with its terminator) longer than max_size
SingleSentenceOverflow(chunk, txt, max_size) ==
    \E i \in DOMAIN SplitSentences(txt) :
        LET sentence == SplitSentences(txt)[i]
        IN  Len(sentence) > max_size /\ chunk = Strip(sentence \o <<KUTEN>>)

\* C3 (as claimed): every chunk returned by _chunk_text(txt, max_size) has
\* length at most max_size, unless it is one single sentence whose own length
\* exceeds max_size.
C3_ChunkSizeBound ==
    c_pc = "chunked" =>
        \A i \in DOMAIN c_out :
            Len(c_out[i]) <= c_max \/ SingleSentenceOverflow(c_out[i], c_text, c_max)

\* C4 (as claimed): the chunks joined in order, with the inserted terminators
\* removed, are exactly the source text with its sentence terminators removed.
C4_LosslessCoverage ==
    c_pc = "chunked" => ChunkContent(c_out) = SentenceContent(c_text)

\* C4 (amended): the chunks joined in order, with the inserted terminators
\* removed, are a subsequence of the source text with its terminators removed,
\* and the two are equal once whitespace is deleted from both: only whitespace
\* (the leading whitespace strip() takes off a chunk) is lost, nothing is added
\* or reordered.
C4_CoverageUpToWhitespace ==
    c_pc = "chunked" =>
        /\ IsSubsequence(ChunkContent(c_out), SentenceContent(c_text))
        /\ Without(ChunkContent(c_out), Whitespace)
               = Without(SentenceContent(c_text), Whitespace)

\* a text cut into several chunks, one of which lost its leading whitespace
C4_Witness ==
    /\ c_pc = "chunked"
    /\ Len(c_out) >= 2
    /\ Len(ChunkContent(c_out)) < Len(SentenceContent(c_text))
    /\ Without(SentenceContent(c_text), Whitespace) # <<>>

-----------------------------------------------------------------------------
(* Properties of the deduplicators *)

\* the identity key of a record of kind k
KeyFor(k, record) == IF k = "character" THEN NormalizedName(record) ELSE RelKey(record)

\* the identity key of a record of the list being deduplicated
KeyOf(record) == KeyFor(d_kind, record)

\* the positions of L holding the first record of their key
FirstPositionsFor(k, L) ==
    {i \in DOMAIN L : \A j \in 1..(i - 1) : KeyFor(k, L[j]) # KeyFor(k, L[i])}

FirstPositions(L) == FirstPositionsFor(d_kind, L)

\* out is L restricted to the positions P, in the order of L
IsRestriction(out, L, P) ==
    /\ Len(out) = Cardinality(P)
    /\ \A i \in P : out[Cardinality({j \in P : j < i}) + 1] = L[i]

\* C9: deduplicating a deduplicated list of characters, or of relationships,
\* changes nothing: dedupe(dedupe(L)) = dedupe(L).
C9_DedupIdempotent == d_runs = 2 => d_list = d_prev

\* a list with repeated keys that was deduplicated twice
C9_Witness == d_runs = 2 /\ Len(d_list) >= 2 /\ Len(d_list) < Len(d_in)

\* C10: the output of _deduplicate_characters (and _deduplicate_relationships)
\* is the input restricted to the first record of each identity key, in input
\* order; every key of the input occurs exactly once in the output.
C10_FirstOccurrenceWins ==
    d_runs = 1 =>
        /\ IsRestriction(d_list, d_in, FirstPositions(d_in))
        /\ \A i \in DOMAIN d_in :
               Cardinality({k \in DOMAIN d_list : KeyOf(d_list[k]) = KeyOf(d_in[i])}) = 1

\* a list where a later record with an already seen key, but different
\* content, was dropped
C10_Witness ==
    /\ d_runs = 1
    /\ Len(d_list) >= 2
    /\ \E i \in DOMAIN d_in : \E j \in 1..(i - 1) :
           KeyOf(d_in[i]) = KeyOf(d_in[j]) /\ d_in[i] # d_in[j]

\* the name of a character with all whitespace stripped and case folded
StrippedFoldedName(char) ==
    LET kept == Without(char.name, Whitespace)
    IN  [i \in DOMAIN kept |-> Lower(kept[i])]

\* C11 (as claimed): _deduplicate_characters treats two records as duplicates
\* exactly when their names are equal after all whitespace is stripped and
\* case is folded: the output is the input restricted to the first record of
\* each such name.
C11_NameNormalization ==
    d_kind = "character" /\ d_runs = 1 =>
        IsRestriction(d_list, d_in,
                      {i \in DOMAIN d_in :
                          \A j \in 1..(i - 1) :
                              StrippedFoldedName(d_in[j]) # StrippedFoldedName(d_in[i])})

\* the ordered triple (person1, person2, relation_type)
Triple(rel) == <<rel.person1, rel.person2, rel.relation_type>>

\* C12 (as claimed): _deduplicate_relationships treats two records as
\* duplicates exactly when their triples (person1, person2, relation_type)
\* are equal component by component: the output is the input restricted to
\* the first record of each triple, so records with different triples are all
\* kept.
C12_RelationshipIdentity ==
    d_kind = "relationship" /\ d_runs = 1 =>
        IsRestriction(d_list, d_in,
                      {i \in DOMAIN d_in :
                          \A j \in 1..(i - 1) : Triple(d_in[j]) # Triple(d_in[i])})

-----------------------------------------------------------------------------
(* Properties of extract_all *)

KindSet == {Kinds[i] : i \in DOMAIN Kinds}

\* the finished _extract_with_scaling / _safe_extract_* calls of extract_all
\* made in a mode
CallsOf(mode) == {i \in DOMAIN calls : calls[i].mode = mode}

\* the calls extract_all made for chunk c
ChunkCalls(c) == {i \in CallsOf("chunked") : calls[i].chunk = c}

\* the records a client that answers normally yields for chunk c
Contribution(k, c) == BuildRecords(k, ClientExtractions(k, chunks[c], FALSE)).records

\* r1 and r2 are the same record as far as the returned batch can tell
SameRecord(k, r1, r2) ==
    IF k = "emotion" THEN r1 = r2 ELSE KeyFor(k, r1) = KeyFor(k, r2)

\* the returned batch holds what chunk c contributes for kind k
ContainsContribution(k, c) ==
    \A i \in DOMAIN Contribution(k, c) :
        \E j \in DOMAIN results[k] : SameRecord(k, results[k][j], Contribution(k, c)[i])

\* the client raised a rate-limit error on the first call made for chunk c and
\* answered every later call for it normally
RateLimitedOnFirstCall(c) ==
    LET E == ChunkCalls(c)
    IN  /\ E # {}
        /\ \A i \in E : calls[i].out = (IF \A j \in E : i <= j THEN "rate" ELSE "ok")

\* C1 (as claimed): in chunked mode, when the client raises a rate-limit error
\* on the first call made for a chunk and succeeds on every later call, the
\* batch returned holds the chunk's characters, emotions and relationships,
\* and extract_all does not abort.
C1_RateLimitRecovery ==
    /\ pc # "raised"
    /\ pc = "done" =>
           \A c \in DOMAIN chunks :
               RateLimitedOnFirstCall(c) => \A k \in KindSet : ContainsContribution(k, c)

\* the _safe_extract_* calls made by extract_all itself
SafeCalls == CallsOf("direct") \cup CallsOf("chunked")

\* a 2500-character text, on the scale where NarrowSize stands for 1000
Is2500(txt) == 2 * Len(txt) = 5 * NarrowSize

\* C2 (as claimed): a _safe_extract_* call on a text longer than NarrowSize
\* whose client call gets a malformed response makes at most MaxSubChunks
\* further client calls; with a client failing exactly on the texts longer
\* than NarrowSize, a 2500-character text yields a non-empty result.
C2_NarrowingBounded ==
    /\ cur.out = "json" => cur.n <= 1 + MaxSubChunks
    /\ \A i \in SafeCalls :
           /\ calls[i].out = "json" /\ Len(calls[i].txt) > NarrowSize
                  => calls[i].n <= 1 + MaxSubChunks
           /\ calls[i].sized /\ Is2500(calls[i].txt) => calls[i].ret # <<>>

\* the part of the direct routing that does not count client calls: neither
\* the scaling mode nor the chunk loop is entered, and the three calls are made
\* in the order of the kinds, each on the whole text
DirectOnly ==
    /\ pc \notin {"scaling", "chunked"}
    /\ CallsOf("scaling") = {} /\ CallsOf("chunked") = {}
    /\ chunks = <<>> /\ sleeps = <<>>
    /\ Len(calls) <= Len(Kinds)
    /\ \A i \in DOMAIN calls : calls[i].kind = Kinds[i] /\ calls[i].txt = text
    /\ pc = "done" => Len(calls) = Len(Kinds)

\* C5 (as claimed): for a text of at most max_chunk_size characters the client
\* is called exactly once per record kind, on the whole text, whatever it
\* answers, and neither the scaling mode nor the chunk loop is entered.
C5_DirectOncePerKind ==
    Len(text) <= max_chunk_size =>
        /\ DirectOnly
        /\ cur.n <= 1
        /\ \A i \in DOMAIN calls : calls[i].n = 1

\* C5 (amended): for a text of at most max_chunk_size characters extract_all
\* makes one _safe_extract_* call per record kind, on the whole text, and
\* enters neither the scaling mode nor the chunk loop; the call reaches the
\* client once, and more than once only when the client answered the whole
\* text with a malformed response and the text is longer than NarrowSize.
C5_DirectRouting ==
    Len(text) <= max_chunk_size =>
        /\ DirectOnly
        /\ cur.n > 1 => cur.out = "json" /\ Len(text) > NarrowSize
        /\ \A i \in DOMAIN calls :
               /\ calls[i].n >= 1
               /\ calls[i].n > 1 => calls[i].out = "json" /\ Len(text) > NarrowSize

\* extract_all has returned for a text handled directly; one kind took a
\* single client call that failed, another more than 1 + MaxSubChunks calls
C5_Witness ==
    /\ pc = "done"
    /\ Len(text) <= max_chunk_size
    /\ Len(text) > NarrowSize
    /\ \E i \in DOMAIN calls : calls[i].n = 1 /\ calls[i].out = "rate"
    /\ \E i \in DOMAIN calls : calls[i].n > 1 + MaxSubChunks

\* what C6 as claimed and C6 amended share: the first call is a scaling call,
\* and a call on a chunk is made only after a scaling call failed
ScaledFirst ==
    /\ CallsOf("direct") = {}
    /\ pc # "direct"
    /\ calls # <<>> => calls[1].mode = "scaling"
    /\ \A i \in CallsOf("chunked") :
           \E j \in CallsOf("scaling") : j < i /\ calls[j].out = "error"

\* C6 (as claimed): for a text longer than max_chunk_size, with use_scaling,
\* the first client call is a scaling call, the scaling mode is tried for
\* every record kind, and a call on a chunk happens only after a scaling call
\* failed.
C6_ScaledFirstEveryKind ==
    use_scaling /\ Len(text) > max_chunk_size =>
        /\ ScaledFirst
        /\ pc \in {"chunked", "done"} =>
               \A k \in KindSet : \E i \in CallsOf("scaling") : calls[i].kind = k

\* C6 (amended): for a text longer than max_chunk_size, with use_scaling, the
\* first client call is a scaling call; the scaling calls are made for the
\* kinds in the order character, emotion, relationship and stop at the first
\* one that fails, so that a kind after a failed one is never tried in scaling
\* mode; a call on a chunk happens only after a scaling call failed, and no
\* scaling call follows a failed one or a call on a chunk.
C6_ScaledFirst ==
    use_scaling /\ Len(text) > max_chunk_size =>
        /\ ScaledFirst
        /\ \A i \in CallsOf("scaling") :
               /\ i <= Len(Kinds) /\ calls[i].kind = Kinds[i]
               /\ \A j \in 1..(i - 1) : calls[j].mode = "scaling" /\ calls[j].out = "ok"
        /\ pc = "scaling" => \A i \in DOMAIN calls : calls[i].out = "ok"
        /\ pc = "done" /\ CallsOf("chunked") = {} => CallsOf("scaling") = 1..Len(Kinds)

\* extract_all has returned after the scaling mode succeeded for the
\* characters and failed for the emotions, so that the relationships were
\* never tried in scaling mode, and the chunk loop ran
C6_Witness ==
    /\ pc = "done"
    /\ use_scaling
    /\ Len(text) > max_chunk_size
    /\ Cardinality(CallsOf("scaling")) = 2
    /\ calls[1].out = "ok" /\ calls[2].out = "error"
    /\ CallsOf("chunked") # {}

RetOf(k, c) ==
    LET E == {i \in ChunkCalls(c) : calls[i].kind = k}
    IN  IF E = {} THEN <<>> ELSE calls[CHOOSE i \in E : \A j \in E : j <= i].ret

\* the results of kind k of all chunks, in chunk order
ChunkedConcat(k) == Concat([c \in 1..Len(chunks) |-> RetOf(k, c)])

\* C8: in chunked mode the emotions returned are the concatenation, in chunk
\* order, of the emotions of every chunk, duplicates kept; the characters and
\* the relationships returned are the concatenations in chunk order restricted
\* to the first record of each identity key.
C8_ChunkedMerge ==
    pc = "done" /\ chunks # <<>> =>
        /\ results.emotion = ChunkedConcat("emotion")
        /\ \A k \in {"character", "relationship"} :
               IsRestriction(results[k], ChunkedConcat(k),
                             FirstPositionsFor(k, ChunkedConcat(k)))

\* extract_all has returned in chunked mode, an emotion occurs twice in the
\* batch, and a character found in two chunks was kept once
C8_Witness ==
    /\ pc = "done"
    /\ chunks # <<>>
    /\ \E i, j \in DOMAIN results.emotion : i < j /\ results.emotion[i] = results.emotion[j]
    /\ Len(results.character) >= 1
    /\ Len(results.character) < Len(ChunkedConcat("character"))

\* the text of the _safe_extract_* call that made the re-chunking stack[j]
NarrowedText(j) == IF j = 1 THEN TopText ELSE Head(stack[j - 1].subs)

\* C17 (as claimed): the recursive re-chunk-and-retry of a _safe_extract_*
\* call strictly shrinks its input (so that the call, and extract_all,
\* terminate): every sub-chunk retried is shorter than the text re-chunked.
C17_NarrowingShrinks ==
    \A j \in DOMAIN stack :
        \A s \in DOMAIN stack[j].subs :
            Len(stack[j].subs[s]) < Len(NarrowedText(j))

\* the cooldowns taken for chunk c
Cooldowns(c) == {s \in DOMAIN sleeps : sleeps[s].chunk = c /\ sleeps[s].secs = 60}

\* C18 (as claimed): in chunked mode, whenever a client call for a chunk fails
\* with a rate-limit error, extract_all waits the cooldown of 60 seconds and
\* then retries the chunk once, for all record kinds; no chunk is processed
\* more than twice.
C18_RateLimitProtocol ==
    /\ \A i \in CallsOf("chunked") : calls[i].attempt <= 2
    /\ \A i \in CallsOf("chunked") :
           calls[i].out = "rate" /\ calls[i].attempt = 1 =>
               /\ Cardinality(Cooldowns(calls[i].chunk)) = 1
               /\ \A s \in Cooldowns(calls[i].chunk) : sleeps[s].at = i
               /\ pc = "done" \/ ci > calls[i].chunk =>
                      \E j \in ChunkCalls(calls[i].chunk) :
                          j > i /\ calls[j].attempt = 2 /\ calls[j].kind = Kinds[1]

\* C19 (as claimed): in chunked mode an exception other than a malformed
\* response or a rate limit, raised by a client call for a chunk, aborts the
\* rest of the chunk: no later record kind of the chunk is extracted, the
\* chunk contributes nothing, and the next chunk is processed.
C19_PerChunkAbort ==
    \A i \in CallsOf("chunked") :
        calls[i].out = "other" =>
            /\ \A j \in ChunkCalls(calls[i].chunk) : j <= i
            /\ pc = "chunked" => ci # calls[i].chunk
            /\ pc = "done" =>
                   \A k \in KindSet :
                       results[k] = MergedBatch(
                           [kk \in KindSet |->
                               Concat([c \in 1..Len(chunks) |->
                                          IF c = calls[i].chunk THEN <<>>
                                          ELSE RetOf(kk, c)])])[k]

\* the inter-chunk delays taken after chunk c
Delays(c) == {s \in DOMAIN sleeps : sleeps[s].chunk = c /\ sleeps[s].secs = 2}

\* C20: in a chunked run the chunks are processed strictly in order; between
\* two consecutive chunks one delay is taken, after all client calls of the
\* first and before the first client call of the second, whatever the
\* outcome of the calls; no delay is taken after the last chunk.
C20_InterChunkDelay ==
    /\ \A i, j \in CallsOf("chunked") : i < j => calls[i].chunk <= calls[j].chunk
    /\ \A s \in DOMAIN sleeps : sleeps[s].chunk \in DOMAIN chunks
    /\ \A c \in DOMAIN chunks :
           IF c < Len(chunks) /\ (pc = "done" \/ ci > c)
           THEN /\ Cardinality(Delays(c)) = 1
                /\ \A s \in Delays(c) :
                       /\ Cardinality({i \in ChunkCalls(c) : i <= sleeps[s].at}) >= Len(Kinds)
                       /\ \A i \in ChunkCalls(c) : i <= sleeps[s].at
                       /\ \A i \in ChunkCalls(c + 1) : i > sleeps[s].at
           ELSE Delays(c) = {}

\* extract_all has returned after two chunks; calls for the first chunk failed
\* with a rate-limit error and with another error, and one delay was taken
C20_Witness ==
    /\ pc = "done"
    /\ Len(chunks) = 2
    /\ Len(sleeps) = 1
    /\ \E i, j \in ChunkCalls(1) : calls[i].out = "rate" /\ calls[j].out = "other"
    /\ ChunkCalls(2) # {}

\* C21: a _safe_extract_* call on a text of at most NarrowSize characters
\* whose client call gets a malformed response returns the empty list and
\* calls the client no further.
C21_NarrowingBaseCase ==
    /\ cur # NoCall => Len(TopText) > NarrowSize
    /\ \A i \in SafeCalls :
           calls[i].out = "json" /\ Len(calls[i].txt) <= NarrowSize =>
               calls[i].ret = <<>> /\ calls[i].n = 1

\* extract_all has returned; a call on a text of at most NarrowSize characters
\* got a malformed response, and the calls for the other kinds gave records
C21_Witness ==
    /\ pc = "done"
    /\ \E i \in SafeCalls :
           /\ calls[i].out = "json" /\ calls[i].kind = "emotion"
           /\ Len(calls[i].txt) <= NarrowSize
    /\ results.character # <<>>
    /\ results.relationship # <<>>

\* the records of s
Records(s) == {s[i] : i \in DOMAIN s}

\* the records the scaling calls that succeeded returned
ScaledRecords == UNION {Records(calls[i].ret) : i \in CallsOf("scaling")}

\* C22: when the scaling call fails for a record kind, the batch returned
\* holds no record of a scaling call that succeeded for an earlier kind, only
\* records returned by calls on chunks, and every kind, those whose scaling
\* call succeeded included, is extracted again on every chunk.
C22_AllOrNothingScaling ==
    (\E i \in CallsOf("scaling") : calls[i].out = "error") =>
        /\ \A k \in KindSet : Records(all_results[k]) \cap ScaledRecords = {}
        /\ pc = "done" =>
               \A k \in KindSet :
                   /\ Records(results[k]) \cap ScaledRecords = {}
                   /\ Records(results[k]) \subseteq
                          UNION {Records(calls[i].ret) :
                                    i \in {j \in CallsOf("chunked") : calls[j].kind = k}}
                   /\ \A c \in DOMAIN chunks :
                          \E i \in ChunkCalls(c) : calls[i].kind = k

\* extract_all has returned after the scaling calls for the characters and
\* the emotions succeeded and the one for the relationships failed; the batch
\* holds characters and emotions
C22_Witness ==
    /\ pc = "done"
    /\ Cardinality(CallsOf("scaling")) = 3
    /\ calls[3].out = "error"
    /\ calls[1].ret # <<>> /\ calls[2].ret # <<>>
    /\ results.character # <<>> /\ results.emotion # <<>>

-----------------------------------------------------------------------------
(* Properties of the record builders *)

\* the textual fields a record of kind k must have
RequiredFields(k) ==
    IF k = "character" THEN {"name", "gender"}
    ELSE IF k = "emotion" THEN {"emotion_type", "subject", "intensity", "quote"}
    ELSE {"person1", "person2", "relation_type", "direction", "evidence"}

\* C13 (as claimed): whatever keys the attribute map of an extraction holds or
\* lacks, and whatever values they map to, no required textual field of the
\* record built from it is absent (None).
C13_RecordDefaults ==
    b_pc = "built" /\ ~b_out.raised =>
        \A f \in RequiredFields(b_kind) : b_out.records[1][f] # None

\* the field of a record of kind k that takes the text of the extraction
TextField(k) ==
    IF k = "character" THEN "name" ELSE IF k = "emotion" THEN "quote" ELSE "evidence"

\* C23 (as claimed): when the client answers with n extractions, the call
\* returns exactly n records, the i-th built from the i-th extraction, whatever
\* attribute keys an extraction carries or lacks and also when it carries no
\* attribute map at all; an incomplete extraction never costs the records of
\* the other extractions.
C23_OneRecordPerExtraction ==
    b_pc = "built" =>
        /\ Len(b_out.records) = Len(Extractions)
        /\ \A i \in DOMAIN Extractions :
               Extractions[i].extraction_text \notin {None, <<>>} =>
                   b_out.records[i][TextField(b_kind)] = Extractions[i].extraction_text

-----------------------------------------------------------------------------
(* Properties of quick_test.py *)

Happened(e) == \E i \in DOMAIN events : events[i] = e

\* C14 (as claimed): when fetching the source text fails with a network error,
\* the error is reported and quick_analyze aborts: no extraction call and no
\* result file follows the failed fetch.
C14_TransportErrorAborts ==
    Happened("fetch_error_reported") =>
        /\ ~Happened("extract_all")
        /\ ~Happened("save_results")
        /\ m_pc \notin {"extract", "display", "save"}

\* the position of the value of --model in argv, 0 when there is none
ModelValueIndex ==
    LET S == {i \in DOMAIN argv : argv[i] = MODEL_OPTION}
    IN  IF S = {} THEN 0 ELSE (CHOOSE i \in S : \A j \in S : i <= j) + 1

\* the positional arguments of argv: neither an option nor the value of --model
Positional == {i \in DOMAIN argv : ~StartsWith(argv[i], <<"-", "-">>) /\ i # ModelValueIndex}

\* C15 (as claimed): a positional work-title argument that is not in the list
\* of works makes main print the valid list and exit with a non-zero status
\* before any analysis starts; analysis runs only with a title of the list.
C15_TitleValidation ==
    m_pc # "main" =>
        /\ (\E i \in Positional : argv[i] \notin WorkSet) =>
               /\ m_pc = "exit"
               /\ exit_status # <<>> /\ exit_status # <<0>>
               /\ ~Happened("quick_analyze")
               /\ Happened("valid_list") \/ Happened("model_name_required")
        /\ Happened("quick_analyze") => work_name \in WorkSet

\* the constructor has run
ConstructorRan == Happened("constructed") \/ Happened("config_error")

\* what C16 as claimed and C16 amended share: the configuration error is
\* raised exactly when the selected credential is unset or empty, at once,
\* without an extraction call and without a second construction
FailFast ==
    /\ credential \in {"OPENAI_API_KEY", "GOOGLE_API_KEY"}
    /\ Happened("config_error") <=> environ[credential] \in {None, <<>>}
    /\ Happened("constructed") <=> ~Happened("config_error")
    /\ Happened("constructed") => api_key = environ[credential]
    /\ Cardinality({i \in DOMAIN events : events[i] \in {"constructed", "config_error"}}) = 1
    /\ Happened("config_error") =>
           /\ m_pc = "returned" /\ ~success
           /\ ~Happened("extract_all")

\* C16 (as claimed): the constructor selects the OpenAI credential when the
\* model identifier contains "gpt" and the Google credential otherwise, and
\* raises a configuration error at once exactly when the selected credential
\* is absent or empty.
C16_CredentialByGpt ==
    ConstructorRan =>
        /\ credential = "OPENAI_API_KEY" <=> Contains(GPT, model_id)
        /\ FailFast

\* C16 (amended): the constructor selects the OpenAI credential when the model
\* identifier contains "gpt" in any letter case and the Google credential
\* otherwise, and raises a configuration error at once exactly when the
\* selected credential is absent or empty.
C16_CredentialFailFast ==
    ConstructorRan =>
        /\ credential = "OPENAI_API_KEY" <=> Contains(GPT, LowerStr(model_id))
        /\ FailFast

\* the constructor was given an upper-case GPT model while OPENAI_API_KEY was
\* set to the empty string and GOOGLE_API_KEY to a key, and has raised
C16_Witness ==
    /\ Happened("config_error")
    /\ model_id = <<"G", "P", "T">>
    /\ credential = "OPENAI_API_KEY"
    /\ environ.OPENAI_API_KEY = <<>>
    /\ environ.GOOGLE_API_KEY = <<"k">>

====
